---- MODULE Spec2Model ----
(***************************************************************************)
(* CPU scheduling simulator (src/algorithms.py, src/utils.py, src/main.py). *)
(*                                                                         *)
(* One run of main.run_scheduler: the caller holds a process list, calls   *)
(* one policy on it, and hands the returned timeline to aggregate_metrics. *)
(* Every policy is a loop over local state; one action is one iteration of *)
(* that loop, so the invariants below are checked on every partial         *)
(* timeline and not only on the returned one.                              *)
(***************************************************************************)
EXTENDS Integers, Sequences, FiniteSets, TLC

VARIABLES
    processes,      \* the caller's process list (never assigned by a policy)
    policy,         \* the policy function run_scheduler calls
    params,         \* its keyword arguments (signature defaults when unused)
    pc,             \* "call" | "loop" | "returned" | "done"
    procs,          \* the policy's arrival-sorted list of not yet admitted processes
    ready,          \* sjf/priority: list; aging/srtf/cfs: heap of tuples
    q,              \* round_robin: deque of admitted processes
    ready_queues,   \* mlfq: one deque per level
    time,           \* the simulated clock
    timeline,       \* the slices emitted so far
    remaining,      \* pid -> remaining burst (round_robin, srtf, cfs, mlfq)
    waiting_since,  \* pid -> clock (priority_scheduling_with_aging)
    current_pid,    \* srtf: pid owning the open slice, or None
    last_time,      \* srtf: start of the open slice
    completed,      \* srtf: number of finished processes
    finished,       \* cfs, mlfq: set of finished pids
    per_proc,       \* aggregate_metrics: per-process records
    metrics         \* aggregate_metrics: global metrics

vars == <<processes, policy, params, pc, procs, ready, q, ready_queues, time,
          timeline, remaining, waiting_since, current_pid, last_time,
          completed, finished, per_proc, metrics>>

----------------------------------------------------------------------------
(* Bounds of the checked inputs.                                           *)

MaxArrival == 2
MaxBurst == 2
MaxPriority == 2

\* the longest burst of the lists on which the CPU shares of cfs are compared
MaxShareBurst == 5

\* the longest timeline followed: a valid run within the bounds has fewer
\* slices, a run that never ends is cut here
MaxSlices == 12

\* Python's None for current_pid; pids are positive
None == 0

----------------------------------------------------------------------------
(* Helpers standing for Python built-ins.                                  *)

Min(a, b) == IF a <= b THEN a ELSE b

Max(a, b) == IF a >= b THEN a ELSE b

SetMin(S) == CHOOSE x \in S : \A y \in S : x <= y

SetMax(S) == CHOOSE x \in S : \A y \in S : x >= y

\* Python's order on tuples of integers: a < b
LexLess(a, b) ==
    \E i \in 1..Min(Len(a), Len(b)) :
        /\ a[i] < b[i]
        /\ \A j \in 1..(i - 1) : a[j] = b[j]

\* sorted(s, key=...) / list.sort(key=...): stable; keys[i] is the key tuple of s[i]
SortedBy(s, keys) ==
    LET n == Len(s)
        pos(i) == 1 + Cardinality({j \in 1..n :
                        \/ LexLess(keys[j], keys[i])
                        \/ ~LexLess(keys[i], keys[j]) /\ j < i})
    IN  [k \in 1..n |-> s[CHOOSE i \in 1..n : pos(i) = k]]

\* SortedByArrival with ties broken by pid: key (arrival, pid)
SortedByArrivalThenPid(ps) ==
    SortedBy(ps, [i \in 1..Len(ps) |-> <<ps[i].arrival, ps[i].pid>>])

\* sorted(processes, key=lambda x: x["arrival"])
SortedByArrival(ps) == SortedBy(ps, [i \in 1..Len(ps) |-> <<ps[i].arrival>>])

\* number of leading elements the loop
\*   while procs and procs[0]["arrival"] <= time: ....(procs.pop(0))
\* pops
NumArrived(ps, now) ==
    CHOOSE k \in 0..Len(ps) :
        /\ \A j \in 1..k : ps[j].arrival <= now
        /\ k < Len(ps) => ps[k + 1].arrival > now

Arrived(ps, now) == SubSeq(ps, 1, NumArrived(ps, now))

Pending(ps, now) == SubSeq(ps, NumArrived(ps, now) + 1, Len(ps))

\* a timeline entry {"pid": ..., "start": ..., "finish": ...}
Slice(pid, start, finish) == [pid |-> pid, start |-> start, finish |-> finish]

\* {p["pid"]: p["burst"] for p in procs}
RemainingOf(ps) ==
    [pid \in {ps[i].pid : i \in 1..Len(ps)} |->
        LET i == CHOOSE i \in 1..Len(ps) :
                    ps[i].pid = pid /\ \A j \in (i + 1)..Len(ps) : ps[j].pid # pid
        IN  ps[i].burst]

\* CallerList with the policy working on the caller's list itself
CallerListAliased(ps, local) == local

\* the caller's list after a step of a policy whose working list is `local`:
\* sorted(processes, ...) and [dict(p) for p in processes] build a new list,
\* so appending to, popping from or rewriting `local` leaves the caller's ps
CallerList(ps, local) == ps

\* the while test after a loop body (or before the first): back into the
\* loop, or on to the return statement
AfterTest(cond) == IF cond THEN "loop" ELSE "returned"

\* IdleJump that leaves the clock where it is
IdleJumpStays(ps, now) == now

\* IdleJump that lands one unit after the next arrival
IdleJumpOvershoots(ps, now) == IF ps # <<>> THEN ps[1].arrival + 1 ELSE now + 1

\* the idle branch shared by sjf, priority_scheduling, cfs and mlfq
IdleJump(ps, now) == IF ps # <<>> THEN Max(now + 1, ps[1].arrival) ELSE now + 1

----------------------------------------------------------------------------
(* fcfs                                                                    *)

\* RunSlice with the arrival ignored: the process starts at the clock
RunSliceAtClock(p, now) == Slice(p.pid, now, now + p.burst)

\* RunSlice running a single time unit instead of the whole burst
RunSliceOneUnit(p, now) ==
    LET start == Max(now, p.arrival)
    IN  Slice(p.pid, start, start + 1)

\* RunSlice that leaves the CPU idle for one unit before the process starts
RunSliceLate(p, now) ==
    LET start == Max(now, p.arrival) + 1
    IN  Slice(p.pid, start, start + p.burst)

\* the dispatch of the non-preemptive policies (fcfs, sjf,
\* priority_scheduling, priority_scheduling_with_aging): the slice of p when
\* the clock is at `now`
\*   start = max(time, p["arrival"]); finish = start + p["burst"]
RunSlice(p, now) ==
    LET start == Max(now, p.arrival)
    IN  Slice(p.pid, start, start + p.burst)

fcfs_call ==
    /\ pc = "call" /\ policy = "fcfs"
    /\ procs' = SortedByArrival(processes)
    /\ time' = 0
    /\ timeline' = <<>>
    /\ pc' = AfterTest(procs' # <<>>)
    /\ UNCHANGED <<policy, params, ready, q, ready_queues, remaining,
                   waiting_since, current_pid, last_time, completed, finished,
                   per_proc, metrics>>
    /\ processes' = CallerList(processes, procs')

fcfs_iter ==
    /\ pc = "loop" /\ policy = "fcfs"
    /\ procs # <<>>
    /\ LET sl == RunSlice(Head(procs), time)
       IN  /\ timeline' = Append(timeline, sl)
           /\ time' = sl.finish
    /\ procs' = Tail(procs)
    /\ pc' = AfterTest(procs' # <<>>)
    /\ UNCHANGED <<policy, params, ready, q, ready_queues,
                   remaining, waiting_since, current_pid, last_time, completed,
                   finished, per_proc, metrics>>
    /\ processes' = CallerList(processes, procs')

\* fcfs as a function of its argument: the loop run to its end
RECURSIVE FcfsLoop(_, _, _)
FcfsLoop(ps, now, tl) ==
    IF ps = <<>> THEN tl
    ELSE LET sl == RunSlice(Head(ps), now)
         IN  FcfsLoop(Tail(ps), sl.finish, Append(tl, sl))

fcfs(ps) == FcfsLoop(SortedByArrival(ps), 0, <<>>)

----------------------------------------------------------------------------
(* sjf and priority_scheduling: the same loop with two sort keys           *)

\* SortByBurst that leaves the ready list in arrival order
SortByBurstUnsorted(r) == r

\* ready.sort(key=lambda x: x["burst"])
SortByBurst(r) == SortedBy(r, [i \in 1..Len(r) |-> <<r[i].burst>>])

\* ready.sort(key=lambda x: (x["priority"], x["arrival"]))
SortByPriority(r) ==
    SortedBy(r, [i \in 1..Len(r) |-> <<r[i].priority, r[i].arrival>>])

sjf_call ==
    /\ pc = "call" /\ policy = "sjf"
    /\ procs' = SortedByArrival(processes)
    /\ ready' = <<>>
    /\ time' = 0
    /\ timeline' = <<>>
    /\ pc' = AfterTest(procs' # <<>> \/ ready' # <<>>)
    /\ UNCHANGED <<policy, params, q, ready_queues, remaining,
                   waiting_since, current_pid, last_time, completed, finished,
                   per_proc, metrics>>
    /\ processes' = CallerList(processes, procs')

sjf_iter ==
    /\ pc = "loop" /\ policy = "sjf"
    /\ ~(procs = <<>> /\ ready = <<>>)
    /\ \E admitted \in {ready \o Arrived(procs, time)} :
       \E rest \in {Pending(procs, time)} :
           /\ procs' = rest
           /\ IF admitted # <<>>
              THEN \E sorted \in {SortByBurst(admitted)} :
                   \E sl \in {RunSlice(Head(sorted), time)} :
                       /\ ready' = Tail(sorted)
                       /\ timeline' = Append(timeline, sl)
                       /\ time' = sl.finish
              ELSE /\ ready' = admitted
                   /\ timeline' = timeline
                   /\ time' = IdleJump(rest, time)
    /\ pc' = AfterTest(procs' # <<>> \/ ready' # <<>>)
    /\ UNCHANGED <<policy, params, q, ready_queues, remaining,
                   waiting_since, current_pid, last_time, completed, finished,
                   per_proc, metrics>>
    /\ processes' = CallerList(processes, procs')

priority_scheduling_call ==
    /\ pc = "call" /\ policy = "priority_scheduling"
    /\ procs' = SortedByArrival(processes)
    /\ ready' = <<>>
    /\ time' = 0
    /\ timeline' = <<>>
    /\ pc' = AfterTest(procs' # <<>> \/ ready' # <<>>)
    /\ UNCHANGED <<policy, params, q, ready_queues, remaining,
                   waiting_since, current_pid, last_time, completed, finished,
                   per_proc, metrics>>
    /\ processes' = CallerList(processes, procs')

priority_scheduling_iter ==
    /\ pc = "loop" /\ policy = "priority_scheduling"
    /\ ~(procs = <<>> /\ ready = <<>>)
    /\ \E admitted \in {ready \o Arrived(procs, time)} :
       \E rest \in {Pending(procs, time)} :
           /\ procs' = rest
           /\ IF admitted # <<>>
              THEN \E sorted \in {SortByPriority(admitted)} :
                   \E sl \in {RunSlice(Head(sorted), time)} :
                       /\ ready' = Tail(sorted)
                       /\ timeline' = Append(timeline, sl)
                       /\ time' = sl.finish
              ELSE /\ ready' = admitted
                   /\ timeline' = timeline
                   /\ time' = IdleJump(rest, time)
    /\ pc' = AfterTest(procs' # <<>> \/ ready' # <<>>)
    /\ UNCHANGED <<policy, params, q, ready_queues, remaining,
                   waiting_since, current_pid, last_time, completed, finished,
                   per_proc, metrics>>
    /\ processes' = CallerList(processes, procs')

----------------------------------------------------------------------------
(* round_robin                                                             *)

\* ExecTime that always runs the whole quantum
ExecTimeWholeQuantum(quantum, rem) == quantum

\* exec_time = min(quantum, remaining[pid]); also cfs and mlfq
ExecTime(quantum, rem) == Min(quantum, rem)

\* Requeue that rotates p back before admitting the arrivals
RequeueBeforeArrivals(queue, arrivals, p, rem) ==
    IF rem > 0 THEN (queue \o <<p>>) \o arrivals ELSE queue \o arrivals

\* the tail of round_robin's loop body: the deque after admitting `arrivals`
\* (the processes that came during the slice) and rotating p back
Requeue(queue, arrivals, p, rem) ==
    IF rem > 0 THEN (queue \o arrivals) \o <<p>> ELSE queue \o arrivals

round_robin_call ==
    /\ pc = "call" /\ policy = "round_robin"
    /\ \E sorted \in {SortedByArrival(processes)} :
       \E seed \in {IF sorted # <<>> THEN Max(0, sorted[1].arrival) ELSE 0} :
           /\ time' = seed
           /\ q' = Arrived(sorted, seed)
           /\ procs' = Pending(sorted, seed)
           /\ remaining' = RemainingOf(sorted)
    /\ timeline' = <<>>
    /\ pc' = AfterTest(q' # <<>> \/ procs' # <<>>)
    /\ UNCHANGED <<policy, params, ready, ready_queues, waiting_since,
                   current_pid, last_time, completed, finished, per_proc, metrics>>
    /\ processes' = CallerList(processes, procs')

round_robin_iter ==
    /\ pc = "loop" /\ policy = "round_robin"
    /\ ~(q = <<>> /\ procs = <<>>)
    /\ Len(timeline) < MaxSlices
    /\ \E t0 \in {IF q = <<>> THEN Max(time, procs[1].arrival) ELSE time} :
       \* if not q: idle gap, jump to the next arrival and admit
       \E q0 \in {IF q = <<>> THEN Arrived(procs, t0) ELSE q} :
       \E procs0 \in {IF q = <<>> THEN Pending(procs, t0) ELSE procs} :
       \E p \in {Head(q0)} :
       \E exec_time \in {ExecTime(params.quantum, remaining[p.pid])} :
       \E finish \in {t0 + exec_time} :
       \E rem \in {remaining[p.pid] - exec_time} :
           /\ time' = finish
           /\ remaining' = [remaining EXCEPT ![p.pid] = rem]
           /\ timeline' = Append(timeline, Slice(p.pid, t0, finish))
           /\ q' = Requeue(Tail(q0), Arrived(procs0, finish), p, rem)
           /\ procs' = Pending(procs0, finish)
    /\ pc' = AfterTest(q' # <<>> \/ procs' # <<>>)
    /\ UNCHANGED <<policy, params, ready, ready_queues,
                   waiting_since, current_pid, last_time, completed, finished,
                   per_proc, metrics>>
    /\ processes' = CallerList(processes, procs')

----------------------------------------------------------------------------
(* heapq: a heap of tuples (k1, ..., pid, p) is kept as the sequence of its  *)
(* entries [key |-> <<k1, ..., pid>>, p |-> p] in ascending key order; with *)
(* unique pids the keys are distinct and the order of pops is that of heapq. *)

HeapEntry(key, p) == [key |-> key, p |-> p]

\* heapq.heappush(h, e)
HeapPush(h, e) ==
    LET k == Cardinality({i \in 1..Len(h) : ~LexLess(e.key, h[i].key)})
    IN  (SubSeq(h, 1, k) \o <<e>>) \o SubSeq(h, k + 1, Len(h))

RECURSIVE HeapPushAll(_, _)
HeapPushAll(h, es) ==
    IF es = <<>> THEN h ELSE HeapPushAll(HeapPush(h, Head(es)), Tail(es))

----------------------------------------------------------------------------
(* priority_scheduling_with_aging                                          *)

\* waiting_since.get(pid, now)
WaitingSinceGet(ws, pid, now) == IF pid \in DOMAIN ws THEN ws[pid] ELSE now

\* Python's a // b for b # 0: the floor of a / b
FloorDiv(a, b) == IF b > 0 THEN a \div b ELSE (0 - a) \div (0 - b)

\* effective_priority(p, now), for aging_interval # 0
effective_priority(p, now, ws, interval, delta) ==
    LET waited == now - WaitingSinceGet(ws, p.pid, now)
        bonus == FloorDiv(waited, interval) * delta
    IN  Max(1, p.priority - bonus)

\* the rebuild of the heap with aged priorities
AgedHeap(h, now, ws, interval, delta) ==
    HeapPushAll(<<>>,
        [i \in 1..Len(h) |->
            HeapEntry(<<effective_priority(h[i].p, now, ws, interval, delta),
                        h[i].key[2], h[i].key[3]>>, h[i].p)])

\* WaitingSinceSet that keeps the clock of a pid that has one: the waiting
\* clock is set at admission and not reset after a dispatch
WaitingSinceKeeps(ws, pids, now) ==
    [pid \in DOMAIN ws \cup pids |-> IF pid \in DOMAIN ws THEN ws[pid] ELSE now]

\* waiting_since after the listed pids are set to `now`
WaitingSinceSet(ws, pids, now) ==
    [pid \in DOMAIN ws \cup pids |-> IF pid \in pids THEN now ELSE ws[pid]]

priority_scheduling_with_aging_call ==
    /\ pc = "call" /\ policy = "priority_scheduling_with_aging"
    /\ \E sorted \in {SortedByArrival(processes)} :
           /\ procs' = sorted
           /\ time' = IF sorted # <<>> THEN sorted[1].arrival ELSE 0
    /\ ready' = <<>>
    /\ timeline' = <<>>
    /\ waiting_since' = <<>>
    /\ pc' = AfterTest(procs' # <<>> \/ ready' # <<>>)
    /\ UNCHANGED <<policy, params, q, ready_queues, remaining,
                   current_pid, last_time, completed, finished, per_proc, metrics>>
    /\ processes' = CallerList(processes, procs')

priority_scheduling_with_aging_iter ==
    /\ pc = "loop" /\ policy = "priority_scheduling_with_aging"
    /\ ~(procs = <<>> /\ ready = <<>>)
    /\ \E new \in {Arrived(procs, time)} :
       \E rest \in {Pending(procs, time)} :
       \E ws0 \in {WaitingSinceSet(waiting_since,
                                   {new[i].pid : i \in 1..Len(new)}, time)} :
       \E ready0 \in {HeapPushAll(ready,
                        [i \in 1..Len(new) |->
                            HeapEntry(<<new[i].priority, new[i].arrival, new[i].pid>>,
                                      new[i])])} :
           /\ procs' = rest
           /\ IF ready0 = <<>>
              THEN \* if procs: jump and continue; else: break
                   /\ time' = IF rest # <<>> THEN Max(time + 1, rest[1].arrival)
                                             ELSE time
                   /\ pc' = IF rest # <<>> THEN AfterTest(TRUE) ELSE "returned"
                   /\ ready' = ready0
                   /\ waiting_since' = ws0
                   /\ timeline' = timeline
              ELSE IF params.aging_interval = 0
              THEN \* waited // aging_interval raises ZeroDivisionError
                   /\ pc' = "raised"
                   /\ ready' = ready0
                   /\ waiting_since' = ws0
                   /\ UNCHANGED <<time, timeline>>
              ELSE \E aged \in {AgedHeap(ready0, time, ws0, params.aging_interval,
                                         params.aging_delta)} :
                   \E sl \in {RunSlice(Head(aged).p, time)} :
                   \E left \in {Tail(aged)} :
                       /\ timeline' = Append(timeline, sl)
                       /\ time' = sl.finish
                       /\ ready' = left
                       /\ waiting_since' =
                            WaitingSinceSet(ws0, {left[i].key[3] : i \in 1..Len(left)},
                                            sl.finish)
                       /\ pc' = AfterTest(left # <<>> \/ rest # <<>>)
    /\ UNCHANGED <<policy, params, q, ready_queues, remaining,
                   current_pid, last_time, completed, finished, per_proc, metrics>>
    /\ processes' = CallerList(processes, procs')

----------------------------------------------------------------------------
(* srtf                                                                    *)

\* SrtfSwitch that forgets to emit the preempted process's slice
SrtfSwitchDropsSlice(tl, last, cur, pid, now) ==
    IF cur = None \/ cur # pid THEN <<tl, now, pid>> ELSE <<tl, last, cur>>

\* SrtfSwitch that forgets last_time = time on a preemption
SrtfSwitchKeepsLastTime(tl, last, cur, pid, now) ==
    IF cur = None THEN <<tl, now, pid>>
    ELSE IF cur # pid
         THEN <<IF last < now THEN Append(tl, Slice(cur, last, now)) ELSE tl,
                last, pid>>
         ELSE <<tl, last, cur>>

\* SrtfSwitch that closes the open slice at every time unit, also when the
\* popped pid is the current one
SrtfSwitchEveryUnit(tl, last, cur, pid, now) ==
    IF cur = None THEN <<tl, now, pid>>
    ELSE <<IF last < now THEN Append(tl, Slice(cur, last, now)) ELSE tl, now, pid>>

\* the boundary recorded when the popped pid differs from current_pid:
\* <<timeline, last_time, current_pid>> before the time unit runs
SrtfSwitch(tl, last, cur, pid, now) ==
    IF cur = None THEN <<tl, now, pid>>
    ELSE IF cur # pid
         THEN <<IF last < now THEN Append(tl, Slice(cur, last, now)) ELSE tl,
                now, pid>>
         ELSE <<tl, last, cur>>

\* SrtfEntry with the key the other way round: (pid, remaining)
SrtfEntryByPid(rem, p) == HeapEntry(<<p.pid, rem>>, p)

\* the heap entry (remaining[pid], pid, p)
SrtfEntry(rem, p) == HeapEntry(<<rem, p.pid>>, p)

srtf_call ==
    /\ pc = "call" /\ policy = "srtf"
    /\ \E sorted \in {SortedByArrival(processes)} :
       \E t0 \in {IF sorted # <<>> THEN sorted[1].arrival ELSE 0} :
           /\ procs' = sorted
           /\ time' = t0
           /\ last_time' = t0
           /\ remaining' = RemainingOf(sorted)
    /\ completed' = 0
    /\ ready' = <<>>
    /\ timeline' = <<>>
    /\ current_pid' = None
    /\ pc' = AfterTest(completed' < Len(processes))
    /\ UNCHANGED <<policy, params, q, ready_queues, waiting_since,
                   finished, per_proc, metrics>>
    /\ processes' = CallerList(processes, procs')

srtf_iter ==
    /\ pc = "loop" /\ policy = "srtf"
    /\ completed < Len(processes)
    /\ \E new \in {Arrived(procs, time)} :
       \E ready0 \in {HeapPushAll(ready,
                        [i \in 1..Len(new) |->
                            SrtfEntry(remaining[new[i].pid], new[i])])} :
           /\ procs' = Pending(procs, time)
           /\ time' = time + 1
           /\ IF ready0 # <<>>
              THEN \E pid \in {Head(ready0).p.pid} :
                   \E sw \in {SrtfSwitch(timeline, last_time, current_pid, pid, time)} :
                   \E rem \in {remaining[pid] - 1} :
                       /\ remaining' = [remaining EXCEPT ![pid] = rem]
                       /\ last_time' = sw[2]
                       /\ IF rem = 0
                          THEN /\ timeline' = Append(sw[1], Slice(pid, sw[2], time + 1))
                               /\ current_pid' = None
                               /\ completed' = completed + 1
                               /\ ready' = Tail(ready0)
                          ELSE /\ timeline' = sw[1]
                               /\ current_pid' = sw[3]
                               /\ completed' = completed
                               /\ ready' = HeapPush(Tail(ready0),
                                              SrtfEntry(rem, Head(ready0).p))
              ELSE /\ ready' = ready0
                   /\ UNCHANGED <<remaining, last_time, timeline, current_pid,
                                  completed>>
    /\ pc' = AfterTest(completed' < Len(processes))
    /\ UNCHANGED <<policy, params, q, ready_queues, waiting_since,
                   finished, per_proc, metrics>>
    /\ processes' = CallerList(processes, procs')

----------------------------------------------------------------------------
(* cfs.  vruntime is a float in the code; here it is the exact rational    *)
(* value times VrScale, a common multiple of all weights, so that every    *)
(* exec_time / weight is an integer number of 1/VrScale units.             *)

RECURSIVE Factorial(_)
Factorial(n) == IF n <= 1 THEN 1 ELSE n * Factorial(n - 1)

VrScale == Factorial(MaxPriority)

\* weight = max(1.0, float(p.get("priority", 1)))
Weight(p) == Max(1, p.priority)

\* VruntimeAfter with the weight multiplied in instead of divided out
VruntimeAfterTimesWeight(vr, exec_time, weight) == vr + exec_time * VrScale * weight

\* VruntimeAfter that leaves vruntime as it was
VruntimeAfterUnchanged(vr, exec_time, weight) == vr

\* vr + (exec_time / weight), in 1/VrScale units
VruntimeAfter(vr, exec_time, weight) == vr + (exec_time * VrScale) \div weight

\* dict(p, vruntime=0.0)
WithVruntime(p, vr) ==
    [pid |-> p.pid, arrival |-> p.arrival, burst |-> p.burst,
     priority |-> p.priority, vruntime |-> vr]

cfs_call ==
    /\ pc = "call" /\ policy = "cfs"
    /\ \E sorted \in {SortedByArrival([i \in 1..Len(processes) |->
                                        WithVruntime(processes[i], 0)])} :
           /\ procs' = sorted
           /\ time' = IF sorted # <<>> THEN sorted[1].arrival ELSE 0
           /\ remaining' = RemainingOf(sorted)
    /\ timeline' = <<>>
    /\ ready' = <<>>
    /\ finished' = {}
    /\ pc' = AfterTest(Cardinality(finished') < Cardinality(DOMAIN remaining'))
    /\ UNCHANGED <<policy, params, q, ready_queues, waiting_since,
                   current_pid, last_time, completed, per_proc, metrics>>
    /\ processes' = CallerList(processes, procs')

cfs_iter ==
    /\ pc = "loop" /\ policy = "cfs"
    /\ Cardinality(finished) < Cardinality(DOMAIN remaining)
    /\ Len(timeline) < MaxSlices
    /\ \E new \in {Arrived(procs, time)} :
       \E rest \in {Pending(procs, time)} :
       \E ready0 \in {HeapPushAll(ready,
                        [i \in 1..Len(new) |->
                            HeapEntry(<<new[i].vruntime, new[i].pid>>, new[i])])} :
           /\ procs' = rest
           /\ IF ready0 # <<>>
              THEN \E vr \in {Head(ready0).key[1]} :
                   \E pid \in {Head(ready0).key[2]} :
                   \E p \in {Head(ready0).p} :
                   \E exec_time \in {ExecTime(params.time_slice, remaining[pid])} :
                   \E rem \in {remaining[pid] - exec_time} :
                   \E p1 \in {WithVruntime(p, VruntimeAfter(vr, exec_time, Weight(p)))} :
                       /\ time' = time + exec_time
                       /\ remaining' = [remaining EXCEPT ![pid] = rem]
                       /\ timeline' = Append(timeline,
                                             Slice(pid, time, time + exec_time))
                       /\ IF rem <= 0
                          THEN /\ finished' = finished \cup {pid}
                               /\ ready' = Tail(ready0)
                          ELSE /\ finished' = finished
                               /\ ready' = HeapPush(Tail(ready0),
                                              HeapEntry(<<p1.vruntime, pid>>, p1))
              ELSE /\ time' = IdleJump(rest, time)
                   /\ ready' = ready0
                   /\ UNCHANGED <<remaining, timeline, finished>>
    /\ pc' = AfterTest(Cardinality(finished') < Cardinality(DOMAIN remaining'))
    /\ UNCHANGED <<policy, params, q, ready_queues, waiting_since,
                   current_pid, last_time, completed, per_proc, metrics>>
    /\ processes' = CallerList(processes, procs')

----------------------------------------------------------------------------
(* mlfq: ready_queues[i] is the deque of level i, i in 0..queues-1         *)

\* LevelQuantum without the base: 2 ** i
LevelQuantumIgnoresBase(base_quantum, i) == 2 ^ i

\* quantum = base_quantum * (2 ** i)
LevelQuantum(base_quantum, i) == base_quantum * (2 ^ i)

\* Demote that sends the process back to the top queue
DemoteToTop(i, queues) == 0

\* the level a process that did not finish at level i is appended to
Demote(i, queues) == IF i + 1 < queues THEN i + 1 ELSE i

mlfq_call ==
    /\ pc = "call" /\ policy = "mlfq"
    /\ \E sorted \in {SortedByArrival(processes)} :
           /\ procs' = sorted
           /\ time' = IF sorted # <<>> THEN sorted[1].arrival ELSE 0
           /\ remaining' = RemainingOf(sorted)
    /\ timeline' = <<>>
    /\ ready_queues' = [i \in 0..(params.queues - 1) |-> <<>>]
    /\ finished' = {}
    /\ pc' = AfterTest(Cardinality(finished') < Cardinality(DOMAIN remaining'))
    /\ UNCHANGED <<policy, params, ready, q, waiting_since, current_pid,
                   last_time, completed, per_proc, metrics>>
    /\ processes' = CallerList(processes, procs')

mlfq_iter ==
    /\ pc = "loop" /\ policy = "mlfq"
    /\ Cardinality(finished) < Cardinality(DOMAIN remaining)
    /\ Len(timeline) < MaxSlices
    /\ IF params.queues < 1 /\ Arrived(procs, time) # <<>>
       THEN \* ready_queues is [] and ready_queues[0] raises IndexError
            /\ pc' = "raised"
            /\ UNCHANGED <<procs, time, ready_queues, remaining, timeline, finished>>
       ELSE \E rest \in {Pending(procs, time)} :
            \E rq0 \in {IF params.queues < 1 THEN ready_queues
                        ELSE [ready_queues EXCEPT ![0] = @ \o Arrived(procs, time)]} :
            \E levels \in {{i \in DOMAIN rq0 : rq0[i] # <<>>}} :
                /\ procs' = rest
                /\ IF levels # {}
                   THEN \E i \in {SetMin(levels)} :
                        \E p \in {Head(rq0[i])} :
                        \E exec_time \in {ExecTime(LevelQuantum(params.base_quantum, i),
                                                   remaining[p.pid])} :
                        \E rem \in {remaining[p.pid] - exec_time} :
                        \E rq1 \in {[rq0 EXCEPT ![i] = Tail(@)]} :
                            /\ time' = time + exec_time
                            /\ remaining' = [remaining EXCEPT ![p.pid] = rem]
                            /\ timeline' = Append(timeline,
                                                  Slice(p.pid, time, time + exec_time))
                            /\ IF rem <= 0
                               THEN /\ finished' = finished \cup {p.pid}
                                    /\ ready_queues' = rq1
                               ELSE /\ finished' = finished
                                    /\ ready_queues' =
                                         [rq1 EXCEPT ![Demote(i, params.queues)] =
                                                         Append(@, p)]
                   ELSE /\ time' = IdleJump(rest, time)
                        /\ ready_queues' = rq0
                        /\ UNCHANGED <<remaining, timeline, finished>>
                /\ pc' = AfterTest(Cardinality(finished') <
                                       Cardinality(DOMAIN remaining'))
    /\ UNCHANGED <<policy, params, ready, q, waiting_since,
                   current_pid, last_time, completed, per_proc, metrics>>
    /\ processes' = CallerList(processes, procs')

----------------------------------------------------------------------------
(* utils.aggregate_metrics                                                 *)

RECURSIVE SumSeq(_)
SumSeq(s) == IF s = <<>> THEN 0 ELSE Head(s) + SumSeq(Tail(s))

\* the elements of a set of integers in ascending order
RECURSIVE Ascending(_)
Ascending(S) == IF S = {} THEN <<>> ELSE <<SetMin(S)>> \o Ascending(S \ {SetMin(S)})

\* sorted(timeline, key=lambda x: (x["start"], x["finish"]))
SortedByStart(tl) == SortedBy(tl, [i \in 1..Len(tl) |-> <<tl[i].start, tl[i].finish>>])

\* info.get(pid, {}).get(field, 0) with info = {int(p["pid"]): p for p in processes}
InfoGet(ps, pid, field) ==
    LET idx == {i \in 1..Len(ps) : ps[i].pid = pid}
    IN  IF idx = {} THEN 0 ELSE ps[SetMax(idx)][field]

\* PerProc with turnaround measured from the first start, not the arrival
PerProcFromFirstStart(tl, ps, pid) ==
    LET slices == SelectSeq(tl, LAMBDA sl : sl.pid = pid)
        arrival == InfoGet(ps, pid, "arrival")
        burst == InfoGet(ps, pid, "burst")
        first_start == SetMin({slices[i].start : i \in 1..Len(slices)})
        last_finish == SetMax({slices[i].finish : i \in 1..Len(slices)})
        turnaround == last_finish - first_start
    IN  [pid |-> pid, arrival |-> arrival, burst |-> burst,
         start |-> first_start, finish |-> last_finish,
         response |-> first_start - arrival,
         waiting |-> turnaround - burst,
         turnaround |-> turnaround,
         active |-> SumSeq([i \in 1..Len(slices) |->
                                slices[i].finish - slices[i].start])]

\* the per-process record of pid
PerProc(tl, ps, pid) ==
    LET slices == SelectSeq(tl, LAMBDA sl : sl.pid = pid)
        arrival == InfoGet(ps, pid, "arrival")
        burst == InfoGet(ps, pid, "burst")
        first_start == SetMin({slices[i].start : i \in 1..Len(slices)})
        last_finish == SetMax({slices[i].finish : i \in 1..Len(slices)})
        turnaround == last_finish - arrival
    IN  [pid |-> pid, arrival |-> arrival, burst |-> burst,
         start |-> first_start, finish |-> last_finish,
         response |-> first_start - arrival,
         waiting |-> turnaround - burst,
         turnaround |-> turnaround,
         active |-> SumSeq([i \in 1..Len(slices) |->
                                slices[i].finish - slices[i].start])]

\* PerProcMetrics without the grouping by pid: one record per slice
PerProcMetricsPerSlice(tl, ps) ==
    LET ordered == SortedBy(tl, [i \in 1..Len(tl) |-> <<tl[i].pid>>])
    IN  [k \in 1..Len(ordered) |-> PerProc(<<ordered[k]>>, ps, ordered[k].pid)]

\* per_proc, sorted by pid
PerProcMetrics(tl, ps) ==
    LET pids == Ascending({tl[i].pid : i \in 1..Len(tl)})
    IN  [k \in 1..Len(pids) |-> PerProc(tl, ps, pids[k])]

\* count of pid changes between consecutive slices, ordered by (start, finish)
ContextSwitches(tl) ==
    LET ordered == SortedByStart(tl)
    IN  Cardinality({i \in 2..Len(ordered) : ordered[i - 1].pid # ordered[i].pid})

\* global_metrics.  The float-valued entries are kept as exact fractions
\* <<numerator, denominator>>: the three means, CPU Utilization (%) and
\* Throughput (0 when makespan is 0).  Std Dev Waiting Time needs a square
\* root and is not represented.
GlobalMetrics(tl, ps) ==
    LET pp == PerProcMetrics(tl, ps)
        n == Len(pp)
        waits == [k \in 1..n |-> pp[k].waiting]
        makespan == SetMax({tl[i].finish : i \in 1..Len(tl)})
                    - SetMin({tl[i].start : i \in 1..Len(tl)})
        cpu_busy == SumSeq([i \in 1..Len(tl) |-> tl[i].finish - tl[i].start])
    IN  [avg_waiting_time |-> <<SumSeq(waits), n>>,
         avg_turnaround_time |-> <<SumSeq([k \in 1..n |-> pp[k].turnaround]), n>>,
         avg_response_time |-> <<SumSeq([k \in 1..n |-> pp[k].response]), n>>,
         min_waiting_time |-> SetMin({waits[k] : k \in 1..n}),
         max_waiting_time |-> SetMax({waits[k] : k \in 1..n}),
         cpu_utilization |-> IF makespan > 0 THEN <<cpu_busy * 100, makespan>>
                                             ELSE <<0, 1>>,
         throughput |-> IF makespan > 0 THEN <<n, makespan>> ELSE <<0, 1>>,
         context_switches |-> ContextSwitches(tl),
         makespan |-> makespan]

\* the early return for an empty timeline or process list
EmptyMetrics ==
    [avg_waiting_time |-> <<0, 1>>, avg_turnaround_time |-> <<0, 1>>,
     avg_response_time |-> <<0, 1>>, min_waiting_time |-> 0,
     max_waiting_time |-> 0, cpu_utilization |-> <<0, 1>>,
     throughput |-> <<0, 1>>, context_switches |-> 0, makespan |-> 0]

\* main.run_scheduler after the policy returned: print_table(results, procs)
aggregate_metrics ==
    /\ pc = "returned"
    /\ IF timeline = <<>> \/ processes = <<>>
       THEN /\ per_proc' = <<>>
            /\ metrics' = EmptyMetrics
       ELSE /\ per_proc' = PerProcMetrics(timeline, processes)
            /\ metrics' = GlobalMetrics(timeline, processes)
    /\ pc' = "done"
    /\ UNCHANGED <<processes, policy, params, procs, ready, q, ready_queues, time,
                   timeline, remaining, waiting_since, current_pid, last_time,
                   completed, finished>>

----------------------------------------------------------------------------
(* The reference simulations: the loop of each policy that jumps the clock *)
(* when idle, started at clock 0 and with every idle branch replaced by    *)
(* its last alternative, time += 1.  Each is the policy as a function of   *)
(* its arguments: the loop run to its end.                                 *)

\* sjf, and priority_scheduling when by_priority
RECURSIVE UnitStepSelect(_, _, _, _, _)
UnitStepSelect(by_priority, ps, rdy, now, tl) ==
    IF ps = <<>> /\ rdy = <<>> THEN tl
    ELSE LET admitted == rdy \o Arrived(ps, now)
             rest == Pending(ps, now)
         IN  IF admitted # <<>>
             THEN LET sorted == IF by_priority THEN SortByPriority(admitted)
                                               ELSE SortByBurst(admitted)
                      sl == RunSlice(Head(sorted), now)
                  IN  UnitStepSelect(by_priority, rest, Tail(sorted), sl.finish,
                                     Append(tl, sl))
             ELSE UnitStepSelect(by_priority, rest, admitted, now + 1, tl)

RECURSIVE UnitStepRoundRobin(_, _, _, _, _, _)
UnitStepRoundRobin(quantum, ps, queue, rem, now, tl) ==
    IF queue = <<>> /\ ps = <<>> THEN tl
    ELSE IF queue = <<>>
    THEN UnitStepRoundRobin(quantum, Pending(ps, now + 1), Arrived(ps, now + 1),
                            rem, now + 1, tl)
    ELSE LET p == Head(queue)
             exec_time == ExecTime(quantum, rem[p.pid])
             finish == now + exec_time
             left == rem[p.pid] - exec_time
         IN  UnitStepRoundRobin(quantum, Pending(ps, finish),
                                Requeue(Tail(queue), Arrived(ps, finish), p, left),
                                [rem EXCEPT ![p.pid] = left], finish,
                                Append(tl, Slice(p.pid, now, finish)))

RECURSIVE UnitStepAging(_, _, _, _, _, _, _)
UnitStepAging(interval, delta, ps, rdy, ws, now, tl) ==
    IF ps = <<>> /\ rdy = <<>> THEN tl
    ELSE LET new == Arrived(ps, now)
             rest == Pending(ps, now)
             ws0 == WaitingSinceSet(ws, {new[i].pid : i \in 1..Len(new)}, now)
             ready0 == HeapPushAll(rdy,
                         [i \in 1..Len(new) |->
                             HeapEntry(<<new[i].priority, new[i].arrival, new[i].pid>>,
                                       new[i])])
         IN  IF ready0 = <<>>
             THEN UnitStepAging(interval, delta, rest, ready0, ws0, now + 1, tl)
             ELSE LET aged == AgedHeap(ready0, now, ws0, interval, delta)
                      sl == RunSlice(Head(aged).p, now)
                      left == Tail(aged)
                  IN  UnitStepAging(interval, delta, rest, left,
                                    WaitingSinceSet(ws0,
                                        {left[i].key[3] : i \in 1..Len(left)},
                                        sl.finish),
                                    sl.finish, Append(tl, sl))

RECURSIVE UnitStepCfs(_, _, _, _, _, _, _)
UnitStepCfs(time_slice, ps, rdy, rem, fin, now, tl) ==
    IF ~(Cardinality(fin) < Cardinality(DOMAIN rem)) THEN tl
    ELSE LET new == Arrived(ps, now)
             rest == Pending(ps, now)
             ready0 == HeapPushAll(rdy,
                         [i \in 1..Len(new) |->
                             HeapEntry(<<new[i].vruntime, new[i].pid>>, new[i])])
         IN  IF ready0 # <<>>
             THEN LET vr == Head(ready0).key[1]
                      pid == Head(ready0).key[2]
                      p == Head(ready0).p
                      exec_time == ExecTime(time_slice, rem[pid])
                      left == rem[pid] - exec_time
                      p1 == WithVruntime(p, VruntimeAfter(vr, exec_time, Weight(p)))
                  IN  UnitStepCfs(time_slice, rest,
                                  IF left <= 0 THEN Tail(ready0)
                                  ELSE HeapPush(Tail(ready0),
                                                HeapEntry(<<p1.vruntime, pid>>, p1)),
                                  [rem EXCEPT ![pid] = left],
                                  IF left <= 0 THEN fin \cup {pid} ELSE fin,
                                  now + exec_time,
                                  Append(tl, Slice(pid, now, now + exec_time)))
             ELSE UnitStepCfs(time_slice, rest, ready0, rem, fin, now + 1, tl)

RECURSIVE UnitStepMlfq(_, _, _, _, _, _, _, _)
UnitStepMlfq(queues, base_quantum, ps, rq, rem, fin, now, tl) ==
    IF ~(Cardinality(fin) < Cardinality(DOMAIN rem)) THEN tl
    ELSE LET rest == Pending(ps, now)
             rq0 == [rq EXCEPT ![0] = @ \o Arrived(ps, now)]
             levels == {i \in DOMAIN rq0 : rq0[i] # <<>>}
         IN  IF levels # {}
             THEN LET i == SetMin(levels)
                      p == Head(rq0[i])
                      exec_time == ExecTime(LevelQuantum(base_quantum, i), rem[p.pid])
                      left == rem[p.pid] - exec_time
                      rq1 == [rq0 EXCEPT ![i] = Tail(@)]
                  IN  UnitStepMlfq(queues, base_quantum, rest,
                                   IF left <= 0 THEN rq1
                                   ELSE [rq1 EXCEPT ![Demote(i, queues)] = Append(@, p)],
                                   [rem EXCEPT ![p.pid] = left],
                                   IF left <= 0 THEN fin \cup {p.pid} ELSE fin,
                                   now + exec_time,
                                   Append(tl, Slice(p.pid, now, now + exec_time)))
             ELSE UnitStepMlfq(queues, base_quantum, rest, rq0, rem, fin, now + 1, tl)

\* the timeline of the reference simulation of policy pol on list ps with
\* keyword arguments kw (valid ones)
UnitStepReference(pol, ps, kw) ==
    LET sorted == SortedByArrival(ps)
    IN  CASE pol = "sjf" -> UnitStepSelect(FALSE, sorted, <<>>, 0, <<>>)
          [] pol = "priority_scheduling" -> UnitStepSelect(TRUE, sorted, <<>>, 0, <<>>)
          [] pol = "round_robin" ->
                UnitStepRoundRobin(kw.quantum, Pending(sorted, 0), Arrived(sorted, 0),
                                   RemainingOf(sorted), 0, <<>>)
          [] pol = "priority_scheduling_with_aging" ->
                UnitStepAging(kw.aging_interval, kw.aging_delta, sorted, <<>>, <<>>,
                              0, <<>>)
          [] pol = "cfs" ->
                UnitStepCfs(kw.time_slice,
                            SortedByArrival([i \in 1..Len(ps) |-> WithVruntime(ps[i], 0)]),
                            <<>>, RemainingOf(sorted), {}, 0, <<>>)
          [] pol = "mlfq" ->
                UnitStepMlfq(kw.queues, kw.base_quantum, sorted,
                             [i \in 0..(kw.queues - 1) |-> <<>>],
                             RemainingOf(sorted), {}, 0, <<>>)

----------------------------------------------------------------------------
(* The calls that are checked.                                             *)

\* bounds of the keyword arguments
MaxQuantum == 2
MaxAgingInterval == 2
MaxAgingDelta == 1
MaxTimeSlice == 2
MaxQueues == 2
MaxBaseQuantum == 2

\* the defaults of the policies' signatures
DefaultQuantum == 2
DefaultAgingInterval == 5
DefaultAgingDelta == 1
DefaultTimeSlice == 2
DefaultQueues == 3
DefaultBaseQuantum == 2

DefaultParams ==
    [quantum |-> DefaultQuantum, aging_interval |-> DefaultAgingInterval,
     aging_delta |-> DefaultAgingDelta, time_slice |-> DefaultTimeSlice,
     queues |-> DefaultQueues, base_quantum |-> DefaultBaseQuantum]

Policies ==
    {"fcfs", "sjf", "srtf", "round_robin", "priority_scheduling",
     "priority_scheduling_with_aging", "cfs", "mlfq"}

\* the policies that read p["priority"]
ReadsPriority(pol) ==
    pol \in {"priority_scheduling", "priority_scheduling_with_aging", "cfs"}

\* keyword arguments with the named ones set
QuantumParams(x) == [DefaultParams EXCEPT !.quantum = x]

AgingParams(x, y) == [DefaultParams EXCEPT !.aging_interval = x, !.aging_delta = y]

TimeSliceParams(x) == [DefaultParams EXCEPT !.time_slice = x]

MlfqParams(x, y) == [DefaultParams EXCEPT !.queues = x, !.base_quantum = y]

\* valid keyword arguments of a policy, within the bounds
ParamsOf(pol) ==
    CASE pol = "round_robin" -> {QuantumParams(x) : x \in 1..MaxQuantum}
      [] pol = "priority_scheduling_with_aging" ->
            {AgingParams(x, y) : x \in 1..MaxAgingInterval, y \in 1..MaxAgingDelta}
      [] pol = "cfs" -> {TimeSliceParams(x) : x \in 1..MaxTimeSlice}
      [] pol = "mlfq" ->
            {MlfqParams(x, y) : x \in 1..MaxQueues, y \in 1..MaxBaseQuantum}
      [] OTHER -> {DefaultParams}

\* the keyword arguments the three-process lists are run with: the ones
\* that split a burst of 2
TripleParamsOf(pol) ==
    CASE pol = "round_robin" -> {QuantumParams(1), QuantumParams(2)}
      [] pol = "priority_scheduling_with_aging" -> {AgingParams(1, 1)}
      [] pol = "cfs" -> {TimeSliceParams(1)}
      [] pol = "mlfq" -> {MlfqParams(1, 1), MlfqParams(2, 1)}
      [] OTHER -> {DefaultParams}

Process(pid, arrival, burst, priority) ==
    [pid |-> pid, arrival |-> arrival, burst |-> burst, priority |-> priority]

\* ps is a valid list of n processes over the given domains: unique pids in
\* any order.  The checked calls are every list of one or two processes
\* within the bounds, every list of three processes over a fixed small
\* domain (arrival 0..2, burst and priority 1..2), and Scenario.
ValidList(ps, n, pids, arrivals, bursts, prios) ==
    \E ids \in [1..n -> pids] :
    \E f \in [1..n -> arrivals \X bursts \X prios] :
        /\ \A i, j \in 1..n : ids[i] = ids[j] => i = j
        /\ ps = [i \in 1..n |-> Process(ids[i], f[i][1], f[i][2], f[i][3])]

\* the concrete scenario of the specification's testable properties
Scenario == <<Process(1, 0, 5, 1), Process(2, 1, 3, 1), Process(3, 2, 1, 1)>>

\* the priorities of the lists a policy is run on: the default 1
\* (main.py: p.setdefault("priority", 1)) unless the policy reads it
PrioritiesOf(pol, max) == IF ReadsPriority(pol) THEN 1..max ELSE {1}

\* nothing of the call has run yet
Locals ==
    /\ pc = "call"
    /\ procs = <<>>
    /\ ready = <<>>
    /\ q = <<>>
    /\ ready_queues = <<>>
    /\ time = 0
    /\ timeline = <<>>
    /\ remaining = <<>>
    /\ waiting_since = <<>>
    /\ current_pid = None
    /\ last_time = 0
    /\ completed = 0
    /\ finished = {}
    /\ per_proc = <<>>
    /\ metrics = EmptyMetrics

\* run_scheduler about to call policy `pol` on a valid list
InitOf(pol) ==
    /\ policy = pol
    /\ \/ /\ \E n \in {1, 2} : ValidList(processes, n, {1, 2}, 0..MaxArrival,
                                         1..MaxBurst, PrioritiesOf(pol, MaxPriority))
          /\ params \in ParamsOf(pol)
       \/ /\ processes = Scenario
          /\ params \in ParamsOf(pol)
       \/ /\ ValidList(processes, 3, {1, 2, 3}, {0, 1, 2}, {1, 2},
                       PrioritiesOf(pol, 2))
          /\ params \in TripleParamsOf(pol)
    /\ Locals

Init == \E pol \in Policies : InitOf(pol)

Next ==
    \/ fcfs_call \/ fcfs_iter
    \/ sjf_call \/ sjf_iter
    \/ srtf_call \/ srtf_iter
    \/ round_robin_call \/ round_robin_iter
    \/ priority_scheduling_call \/ priority_scheduling_iter
    \/ priority_scheduling_with_aging_call \/ priority_scheduling_with_aging_iter
    \/ cfs_call \/ cfs_iter
    \/ mlfq_call \/ mlfq_iter
    \/ aggregate_metrics

Spec == Init /\ [][Next]_vars

\* run_scheduler about to call a policy on a list of one or two processes
\* or on Scenario
InitLive ==
    /\ policy \in Policies
    /\ \/ \E n \in {1, 2} : ValidList(processes, n, {1, 2}, 0..MaxArrival,
                                      1..MaxBurst, PrioritiesOf(policy, MaxPriority))
       \/ processes = Scenario
    /\ params \in ParamsOf(policy)
    /\ Locals

\* a step of the policy call
PolicyStep ==
    \/ fcfs_call \/ fcfs_iter
    \/ sjf_call \/ sjf_iter
    \/ srtf_call \/ srtf_iter
    \/ round_robin_call \/ round_robin_iter
    \/ priority_scheduling_call \/ priority_scheduling_iter
    \/ priority_scheduling_with_aging_call \/ priority_scheduling_with_aging_iter
    \/ cfs_call \/ cfs_iter
    \/ mlfq_call \/ mlfq_iter

\* the interpreter runs the next step of the policy call whenever there is
\* one: the call is sequential code that nothing suspends
SpecLive == InitLive /\ [][Next]_vars /\ WF_vars(PolicyStep)

\* the runs of one policy
SpecFcfs ==
    InitOf("fcfs") /\ [][fcfs_call \/ fcfs_iter \/ aggregate_metrics]_vars

SpecSjf ==
    InitOf("sjf") /\ [][sjf_call \/ sjf_iter \/ aggregate_metrics]_vars

SpecRoundRobin ==
    InitOf("round_robin")
        /\ [][round_robin_call \/ round_robin_iter \/ aggregate_metrics]_vars

SpecAging ==
    InitOf("priority_scheduling_with_aging")
        /\ [][\/ priority_scheduling_with_aging_call
              \/ priority_scheduling_with_aging_iter
              \/ aggregate_metrics]_vars

SpecCfs ==
    InitOf("cfs") /\ [][cfs_call \/ cfs_iter \/ aggregate_metrics]_vars

\* cfs about to be called on two processes with bursts up to MaxShareBurst,
\* or on three processes that arrive together with bursts 2 or 4
InitCfsShare ==
    /\ policy = "cfs"
    /\ \/ ValidList(processes, 2, {1, 2}, {0, 1}, 1..MaxShareBurst, 1..MaxPriority)
       \/ ValidList(processes, 3, {1, 2, 3}, {0}, {2, 4}, 1..MaxPriority)
    /\ params \in ParamsOf("cfs")
    /\ Locals

SpecCfsShare ==
    (InitOf("cfs") \/ InitCfsShare)
        /\ [][cfs_call \/ cfs_iter \/ aggregate_metrics]_vars

\* priority_scheduling_with_aging about to be called on one or two processes
\* with priorities from 0, with any aging_delta from -1 and aging_interval > 0
InitAgingAny ==
    /\ policy = "priority_scheduling_with_aging"
    /\ \E n \in {1, 2} : ValidList(processes, n, {1, 2}, 0..MaxArrival,
                                   1..MaxBurst, 0..MaxPriority)
    /\ params \in {AgingParams(x, y) : x \in 1..MaxAgingInterval,
                                        y \in (-1)..MaxAgingDelta}
    /\ Locals

SpecAgingAny ==
    (InitOf("priority_scheduling_with_aging") \/ InitAgingAny)
        /\ [][\/ priority_scheduling_with_aging_call
              \/ priority_scheduling_with_aging_iter
              \/ aggregate_metrics]_vars

\* the malformed values tried for a keyword argument, and 1 for a valid one
MalformedValues == {-1, 0}

\* keyword arguments of a policy of which at least one is malformed
MalformedParamsOf(pol) ==
    CASE pol = "round_robin" -> {QuantumParams(x) : x \in MalformedValues}
      [] pol = "priority_scheduling_with_aging" ->
            {AgingParams(x, y) : x, y \in MalformedValues \cup {1}}
                \ {AgingParams(1, 1)}
      [] pol = "cfs" -> {TimeSliceParams(x) : x \in MalformedValues}
      [] pol = "mlfq" ->
            {MlfqParams(x, y) : x, y \in MalformedValues \cup {1}}
                \ {MlfqParams(1, 1)}

\* the policies that take keyword arguments
Parameterised == {"round_robin", "priority_scheduling_with_aging", "cfs", "mlfq"}

\* a policy called on a valid list with malformed keyword arguments
InitMalformed ==
    /\ policy \in Parameterised
    /\ \E n \in {1, 2} : ValidList(processes, n, {1, 2}, 0..MaxArrival,
                                   1..MaxBurst, PrioritiesOf(policy, MaxPriority))
    /\ params \in MalformedParamsOf(policy)
    /\ Locals

SpecMalformed ==
    InitMalformed
        /\ [][\/ round_robin_call \/ round_robin_iter
              \/ priority_scheduling_with_aging_call
              \/ priority_scheduling_with_aging_iter
              \/ cfs_call \/ cfs_iter
              \/ mlfq_call \/ mlfq_iter
              \/ aggregate_metrics]_vars

\* empty process list, duplicate pid, burst <= 0 or arrival < 0
InvalidInput(ps) ==
    \/ ps = <<>>
    \/ \E i, j \in 1..Len(ps) : i # j /\ ps[i].pid = ps[j].pid
    \/ \E i \in 1..Len(ps) : ps[i].burst <= 0 \/ ps[i].arrival < 0

\* a policy called on an invalid list: every policy on the empty list, and
\* the policies that keep no per-pid state on every invalid list of one or
\* two processes with arrival in -1..1 and burst in -1..1
InitInvalid ==
    /\ \/ /\ policy \in Policies
          /\ processes = <<>>
       \/ /\ policy \in {"fcfs", "sjf", "priority_scheduling"}
          /\ \E n \in {1, 2} :
             \E ids \in [1..n -> {1, 2}] :
             \E f \in [1..n -> {-1, 0, 1} \X {-1, 0, 1} \X PrioritiesOf(policy, 2)] :
                processes = [i \in 1..n |-> Process(ids[i], f[i][1], f[i][2], f[i][3])]
          /\ InvalidInput(processes)
    /\ params \in ParamsOf(policy)
    /\ Locals

SpecInvalid ==
    InitInvalid
        /\ [][\/ fcfs_call \/ fcfs_iter
              \/ sjf_call \/ sjf_iter
              \/ priority_scheduling_call \/ priority_scheduling_iter
              \/ srtf_call \/ round_robin_call
              \/ priority_scheduling_with_aging_call
              \/ cfs_call \/ mlfq_call
              \/ aggregate_metrics]_vars

\* the runs of sjf and of priority_scheduling
SpecSjfPriority ==
    (InitOf("sjf") \/ InitOf("priority_scheduling"))
        /\ [][\/ sjf_call \/ sjf_iter
              \/ priority_scheduling_call \/ priority_scheduling_iter
              \/ aggregate_metrics]_vars

SpecMlfq ==
    InitOf("mlfq") /\ [][mlfq_call \/ mlfq_iter \/ aggregate_metrics]_vars

SpecSrtf ==
    InitOf("srtf") /\ [][srtf_call \/ srtf_iter \/ aggregate_metrics]_vars


----------------------------------------------------------------------------
(* Properties.                                                             *)

Returned == pc \in {"returned", "done"}

\* the pids, and the fields of the process with a given pid, of the input
InputPids == {processes[i].pid : i \in 1..Len(processes)}

ArrivalOf(pid) == InfoGet(processes, pid, "arrival")

BurstOf(pid) == InfoGet(processes, pid, "burst")

PriorityOf(pid) == InfoGet(processes, pid, "priority")

\* the indices of the slices of pid
SlicesOf(pid) == {i \in 1..Len(timeline) : timeline[i].pid = pid}

\* the sum of (finish - start) over the slices of pid
ActiveTime(pid) ==
    LET sl == SelectSeq(timeline, LAMBDA x : x.pid = pid)
    IN  SumSeq([i \in 1..Len(sl) |-> sl[i].finish - sl[i].start])

\* sorted(timeline, key=start), as the claims about the timeline order read it
ByStart == SortedBy(timeline, [i \in 1..Len(timeline) |-> <<timeline[i].start>>])

\* C1: under every policy remaining[pid] never goes below 0, and when the
\* policy has returned remaining[pid] is 0 and the durations of the slices
\* of each pid add up to that pid's burst.
C1_SliceSumIsBurst ==
    /\ \A pid \in DOMAIN remaining : remaining[pid] >= 0
    /\ Returned =>
        /\ \A pid \in DOMAIN remaining : remaining[pid] = 0
        /\ \A pid \in InputPids : ActiveTime(pid) = BurstOf(pid)

\* a preemptive run has returned with some pid's burst split over two slices
C1_Witness ==
    /\ Returned /\ policy = "srtf"
    /\ \E pid \in InputPids : Cardinality(SlicesOf(pid)) >= 2

\* C2: in every timeline, sorted by start, every slice has finish > start
\* and no slice starts before the one before it has finished.
C2_NoOverlap ==
    LET s == ByStart
    IN  /\ \A i \in 1..Len(s) : s[i].finish > s[i].start
        /\ \A i \in 1..(Len(s) - 1) : s[i + 1].start >= s[i].finish

\* srtf has returned a timeline in which one process was preempted by another
C2_Witness ==
    /\ Returned /\ policy = "srtf"
    /\ \E i, j, k \in 1..Len(timeline) :
        /\ i < j /\ j < k
        /\ timeline[i].pid = timeline[k].pid
        /\ timeline[j].pid # timeline[i].pid

\* C3: no slice of a pid starts before that pid's arrival.
C3_StartAfterArrival ==
    \A i \in 1..Len(timeline) : timeline[i].start >= ArrivalOf(timeline[i].pid)

\* mlfq has returned a timeline with an idle gap: the clock jumped to the
\* arrival of the process dispatched after the gap, and the first dispatched
\* process started at its own arrival
C3_Witness ==
    /\ Returned /\ policy = "mlfq" /\ Len(timeline) >= 2
    /\ timeline[1].start = ArrivalOf(timeline[1].pid)
    /\ \E i \in 2..Len(timeline) :
        /\ timeline[i].start > timeline[i - 1].finish
        /\ timeline[i].start = ArrivalOf(timeline[i].pid)

NonPreemptive == policy \in {"fcfs", "sjf", "priority_scheduling"}

\* C4: fcfs, sjf and priority_scheduling never emit two slices of one pid,
\* and return exactly one slice per input pid, of length burst[pid], inside
\* which no other slice starts.
C4_OneSlicePerPid ==
    NonPreemptive =>
        /\ \A pid \in InputPids : Cardinality(SlicesOf(pid)) <= 1
        /\ Returned =>
            /\ Len(timeline) = Len(processes)
            /\ \A pid \in InputPids :
                LET own == SlicesOf(pid)
                IN  /\ Cardinality(own) = 1
                    /\ \A i \in own :
                        /\ timeline[i].finish - timeline[i].start = BurstOf(pid)
                        /\ \A j \in 1..Len(timeline) :
                            j # i => ~(/\ timeline[i].start <= timeline[j].start
                                       /\ timeline[j].start < timeline[i].finish)

\* priority_scheduling has returned the slices of three processes, the later
\* two of which were ready together
C4_Witness ==
    /\ Returned /\ policy = "priority_scheduling"
    /\ Len(timeline) = 3
    /\ ArrivalOf(timeline[3].pid) < timeline[2].start
    /\ BurstOf(timeline[2].pid) > 1

----------------------------------------------------------------------------
(* The concrete scenario under fcfs and sjf.                               *)

\* per_proc[k][field] for k = 1..Len(per_proc), i.e. in pid order
Column(field) == [k \in 1..Len(per_proc) |-> per_proc[k][field]]

ScenarioFcfsTimeline == <<Slice(1, 0, 5), Slice(2, 5, 8), Slice(3, 8, 9)>>

\* C5: on Scenario, fcfs returns [(1,0,5),(2,5,8),(3,8,9)] and
\* aggregate_metrics gives waiting [0,4,6] (pid 3 waits from 2 to 8),
\* turnaround [5,7,7], makespan 9 and 2 context switches.
C5_FcfsScenario ==
    (policy = "fcfs" /\ processes = Scenario) =>
        /\ Returned => timeline = ScenarioFcfsTimeline
        /\ pc = "done" =>
            /\ Column("pid") = <<1, 2, 3>>
            /\ Column("waiting") = <<0, 4, 6>>
            /\ Column("turnaround") = <<5, 7, 7>>
            /\ metrics.makespan = 9
            /\ metrics.context_switches = 2

\* C5 as the specification states it: waiting [0,4,7]
C5_FcfsScenarioAsStated ==
    (policy = "fcfs" /\ processes = Scenario) =>
        /\ Returned => timeline = ScenarioFcfsTimeline
        /\ pc = "done" =>
            /\ Column("pid") = <<1, 2, 3>>
            /\ Column("waiting") = <<0, 4, 7>>
            /\ Column("turnaround") = <<5, 7, 7>>
            /\ metrics.makespan = 9
            /\ metrics.context_switches = 2

\* fcfs has run on Scenario and its timeline has been aggregated
C5_Witness ==
    /\ policy = "fcfs" /\ processes = Scenario /\ pc = "done"
    /\ Len(per_proc) = 3

\* C6: on Scenario, sjf returns [(1,0,5),(3,5,6),(2,6,9)]: when pid 1
\* finishes at 5 both pid 2 and pid 3 are ready and the shorter pid 3 runs
\* first, so the timeline differs from fcfs's.
C6_SjfScenario ==
    (policy = "sjf" /\ processes = Scenario /\ Returned) =>
        /\ timeline = <<Slice(1, 0, 5), Slice(3, 5, 6), Slice(2, 6, 9)>>
        /\ timeline # fcfs(processes)

\* C6 as the specification states it: sjf returns fcfs's timeline
C6_SjfScenarioAsStated ==
    (policy = "sjf" /\ processes = Scenario /\ Returned) =>
        /\ timeline = fcfs(processes)
        /\ timeline = ScenarioFcfsTimeline

\* sjf has returned from Scenario
C6_Witness ==
    /\ policy = "sjf" /\ processes = Scenario /\ Returned
    /\ Len(timeline) = 3

----------------------------------------------------------------------------
(* round_robin.                                                            *)

\* the index of the first slice of pid (0 when it has none)
FirstSlice(pid) == IF SlicesOf(pid) = {} THEN 0 ELSE SetMin(SlicesOf(pid))

\* the positions of pid in the ready queue q
QueuePositions(pid) == {k \in 1..Len(q) : q[k].pid = pid}

\* the pid r arrived during slice i, or exactly at its end
ArrivedDuring(r, i) ==
    /\ timeline[i].start < ArrivalOf(r)
    /\ ArrivalOf(r) <= timeline[i].finish

\* C7: in round_robin, after a slice that leaves its process unfinished the
\* process is the last element of the queue, behind every process that
\* arrived during the slice or exactly at its end, and nothing with
\* arrival <= clock is left unadmitted; hence the next slice of a preempted
\* process comes after the first slice of every such process.
C7_ArrivalsBeforeRequeue ==
    policy = "round_robin" =>
        /\ (pc = "loop" /\ timeline # <<>>) =>
            LET n == Len(timeline)
                p == timeline[n].pid
            IN  /\ \A k \in 1..Len(procs) : procs[k].arrival > time
                /\ remaining[p] > 0 =>
                    /\ q # <<>> /\ q[Len(q)].pid = p
                    /\ \A r \in InputPids :
                        ArrivedDuring(r, n) =>
                            /\ QueuePositions(r) # {}
                            /\ \A k \in QueuePositions(r) : k < Len(q)
        /\ \A i, j \in 1..Len(timeline) :
            (i < j /\ timeline[i].pid = timeline[j].pid) =>
                \A r \in InputPids :
                    ArrivedDuring(r, i) => (FirstSlice(r) # 0 /\ FirstSlice(r) < j)

\* round_robin has returned a timeline in which a process was preempted at
\* the very clock another process arrived, and that process ran in between
C7_Witness ==
    /\ policy = "round_robin" /\ Returned
    /\ \E i, j \in 1..Len(timeline) : \E r \in InputPids :
        /\ i < j /\ timeline[i].pid = timeline[j].pid
        /\ ArrivalOf(r) = timeline[i].finish
        /\ i < FirstSlice(r) /\ FirstSlice(r) < j

\* max(p["burst"] for p in processes)
MaxBurstOf(ps) == SetMax({ps[i].burst : i \in 1..Len(ps)})

\* C8: round_robin called with quantum >= max(burst) returns the timeline
\* fcfs returns on the same input.
C8_LargeQuantumIsFcfs ==
    (/\ policy = "round_robin" /\ Returned
     /\ params.quantum >= MaxBurstOf(processes)) =>
        timeline = fcfs(processes)

\* round_robin with quantum >= max(burst) has returned three slices with an
\* idle gap, two of them of processes with equal arrival given in descending
\* pid order
C8_Witness ==
    /\ policy = "round_robin" /\ Returned
    /\ params.quantum >= MaxBurstOf(processes)
    /\ Len(timeline) = 3
    /\ \E i \in 2..3 : timeline[i].start > timeline[i - 1].finish
    /\ \E i, j \in 1..3 :
        /\ i < j
        /\ processes[i].arrival = processes[j].arrival
        /\ processes[i].pid > processes[j].pid

----------------------------------------------------------------------------
(* priority_scheduling_with_aging.                                         *)

\* ceil((priority - 1) / aging_delta) * aging_interval: the waiting after
\* which the effective priority of pid would be 1
AgingBound(pid) ==
    ((PriorityOf(pid) - 1 + params.aging_delta - 1) \div params.aging_delta)
        * params.aging_interval

\* C9: in priority_scheduling_with_aging, a process that was ready at one
\* decision point and is still waiting at a decision point at least
\* AgingBound later has effective priority 1 there, so the process dispatched
\* at that decision point did not arrive later than it.
C9_AgingBoundsStarvation ==
    policy = "priority_scheduling_with_aging" =>
        \A i, k \in 1..Len(timeline) : \A p \in InputPids :
            (/\ i < k
             /\ ArrivalOf(p) <= timeline[i].start
             /\ timeline[k].start - timeline[i].start >= AgingBound(p)
             /\ \A m \in 1..k : timeline[m].pid # p) =>
                ArrivalOf(timeline[k].pid) <= ArrivalOf(p)

----------------------------------------------------------------------------
(* cfs.                                                                    *)

\* the CPU time pid has received so far
CpuTime(pid) == BurstOf(pid) - remaining[pid]

\* two different pids with equal priority, arrival and burst
EqualPair(a, b) ==
    /\ a # b
    /\ PriorityOf(a) = PriorityOf(b)
    /\ ArrivalOf(a) = ArrivalOf(b)
    /\ BurstOf(a) = BurstOf(b)

\* C10: in cfs, at every point of the run, the CPU time received by two
\* processes with equal priority, arrival and burst differs by at most
\* time_slice.
C10_EqualPairWithinOneSlice ==
    (policy = "cfs" /\ pc # "call") =>
        \A a, b \in InputPids :
            EqualPair(a, b) => CpuTime(a) - CpuTime(b) <= params.time_slice

\* cfs is in the middle of a run of two equal processes that have alternated:
\* at least three slices, and one process is a time_slice ahead of the other
C10_Witness ==
    /\ policy = "cfs" /\ pc = "loop" /\ Len(timeline) >= 3
    /\ \E a, b \in InputPids :
        /\ EqualPair(a, b)
        /\ CpuTime(a) - CpuTime(b) = params.time_slice
        /\ CpuTime(b) > 0

----------------------------------------------------------------------------
(* mlfq.                                                                   *)

\* the levels at which pid is queued in ready queues rq
LevelsOf(rq, pid) ==
    {i \in DOMAIN rq : \E k \in 1..Len(rq[i]) : rq[i][k].pid = pid}

\* the level at which pid is queued in rq, -1 when it is in no queue
LevelOf(rq, pid) == IF LevelsOf(rq, pid) = {} THEN -1 ELSE SetMax(LevelsOf(rq, pid))

\* C11: in mlfq, a process with burst <= base_quantum is never queued below
\* level 0 and never has two slices, and when mlfq has returned it has
\* exactly one slice, of length burst.
C11_ShortBurstOneSlice ==
    policy = "mlfq" =>
        \A pid \in InputPids :
            BurstOf(pid) <= params.base_quantum =>
                /\ LevelsOf(ready_queues, pid) \subseteq {0}
                /\ Cardinality(SlicesOf(pid)) <= 1
                /\ Returned =>
                    /\ Cardinality(SlicesOf(pid)) = 1
                    /\ \A i \in SlicesOf(pid) :
                        timeline[i].finish - timeline[i].start = BurstOf(pid)

\* mlfq has returned from a run in which a process that fitted in the base
\* quantum ran after the first slice of a process that was split
C11_Witness ==
    /\ policy = "mlfq" /\ Returned
    /\ \E a, b \in InputPids :
        /\ BurstOf(a) <= params.base_quantum
        /\ Cardinality(SlicesOf(a)) = 1
        /\ Cardinality(SlicesOf(b)) >= 2
        /\ SetMin(SlicesOf(b)) < SetMin(SlicesOf(a))

\* the pid that ran in this step of mlfq: the one of the appended slice
RanInStep(pid) ==
    /\ Len(timeline') = Len(timeline) + 1
    /\ timeline'[Len(timeline')].pid = pid

\* C12: in every step of mlfq, a process that enters the queues enters at
\* level 0, a process that stays queued keeps its level unless it ran, and a
\* process that ran at level i without finishing is queued at
\* min(i + 1, queues - 1); its level never decreases.
C12_LevelMonotone ==
    [][policy = "mlfq" =>
        \A pid \in InputPids :
            LET old == LevelOf(ready_queues, pid)
                new == LevelOf(ready_queues', pid)
                ran_at == IF old = -1 THEN 0 ELSE old
            IN  /\ Cardinality(LevelsOf(ready_queues', pid)) <= 1
                /\ (old = -1 /\ new # -1 /\ ~RanInStep(pid)) => new = 0
                /\ (old # -1 /\ new # -1) => new >= old
                /\ (old # -1 /\ ~RanInStep(pid)) => new = old
                /\ (RanInStep(pid) /\ remaining'[pid] > 0) =>
                    new = Min(ran_at + 1, params.queues - 1)
                /\ (RanInStep(pid) /\ remaining'[pid] <= 0) => new = -1]_vars

\* a process that has run twice and is not finished is queued at the last
\* level of at least two, behind or ahead of a process still at level 0
C12_Witness ==
    /\ policy = "mlfq" /\ pc = "loop" /\ params.queues >= 2
    /\ \E pid \in InputPids :
        /\ Cardinality(SlicesOf(pid)) >= 2
        /\ remaining[pid] > 0
        /\ LevelOf(ready_queues, pid) = params.queues - 1

----------------------------------------------------------------------------
(* Malformed keyword arguments.                                            *)

\* C13: a policy called with malformed parameters emits no slice and
\* returns no timeline: it ends in an error before any simulation step.
C13_MalformedParamsFailFast ==
    params \in MalformedParamsOf(policy) =>
        /\ timeline = <<>>
        /\ ~Returned

----------------------------------------------------------------------------
(* Invalid input.                                                          *)

\* C14: a policy called on an invalid process list emits no slice and
\* returns no timeline, not even an empty one.
C14_InvalidInputRejected ==
    InvalidInput(processes) =>
        /\ timeline = <<>>
        /\ ~Returned

----------------------------------------------------------------------------
(* The caller's list.                                                      *)

----------------------------------------------------------------------------
(* Termination.                                                            *)

\* the sum of the values of a function with a finite domain of integers
RECURSIVE SumOf(_)
SumOf(f) ==
    IF DOMAIN f = {} THEN 0
    ELSE LET x == SetMin(DOMAIN f)
         IN  f[x] + SumOf([y \in DOMAIN f \ {x} |-> f[y]])

\* the total remaining work: the remaining times where the policy keeps
\* them, the bursts of the processes not yet dispatched where it does not
Work ==
    IF policy \in {"srtf", "round_robin", "cfs", "mlfq"}
    THEN SumOf(remaining)
    ELSE SumSeq([i \in 1..Len(processes) |-> processes[i].burst])
             - SumSeq([i \in 1..Len(timeline) |->
                          timeline[i].finish - timeline[i].start])

\* this step moves the clock forward, no further than the next pending arrival
AdvancesToArrival ==
    /\ procs # <<>>
    /\ time < time' /\ time' <= procs[1].arrival
    /\ Work' = Work

\* C16: every iteration of a policy's loop either reduces the total
\* remaining work or advances the clock towards a pending arrival, and every
\* run reaches the state where the timeline is returned with all work done.
C16_Terminates ==
    /\ [][pc = "loop" => (Work' < Work /\ Work' >= 0) \/ AdvancesToArrival]_vars
    /\ <>(Returned /\ Work = 0)

\* a run has returned after both kinds of iteration: an idle gap was
\* skipped and a process was run in more than one slice
C16_Witness ==
    /\ Returned /\ policy \in {"srtf", "cfs", "mlfq"}
    /\ \E i \in 2..Len(timeline) : timeline[i].start > timeline[i - 1].finish
    /\ \E pid \in InputPids : Cardinality(SlicesOf(pid)) >= 2

----------------------------------------------------------------------------
(* aggregate_metrics on the timeline of a policy.                          *)

\* C17: after aggregate_metrics, per_proc has exactly one record for each
\* input pid, and each record has active = burst, turnaround = last finish
\* - arrival and waiting = turnaround - burst.
C17_OneRecordPerPid ==
    pc = "done" =>
        /\ Len(per_proc) = Len(processes)
        /\ \A pid \in InputPids :
            Cardinality({k \in 1..Len(per_proc) : per_proc[k].pid = pid}) = 1
        /\ \A k \in 1..Len(per_proc) :
            LET r == per_proc[k]
            IN  /\ r.pid \in InputPids
                /\ r.active = BurstOf(r.pid)
                /\ r.finish = SetMax({timeline[i].finish : i \in SlicesOf(r.pid)})
                /\ r.turnaround = r.finish - ArrivalOf(r.pid)
                /\ r.waiting = r.turnaround - BurstOf(r.pid)

\* the timeline of a round_robin run of three processes, one of them split
\* over several slices and the list not in pid order, has been aggregated
C17_Witness ==
    /\ pc = "done" /\ policy = "round_robin" /\ Len(per_proc) = 3
    /\ processes[1].pid > processes[2].pid
    /\ \E pid \in InputPids : Cardinality(SlicesOf(pid)) >= 2

----------------------------------------------------------------------------
(* fcfs tie-break.                                                         *)

\* C18: in the timeline fcfs returns, two processes with equal arrival run
\* in the order in which they stand in the input list.
C18_FcfsTiesKeepInputOrder ==
    (policy = "fcfs" /\ Returned) =>
        \A i, j \in 1..Len(processes) :
            (i < j /\ processes[i].arrival = processes[j].arrival) =>
                /\ FirstSlice(processes[i].pid) # 0
                /\ FirstSlice(processes[i].pid) < FirstSlice(processes[j].pid)

\* fcfs has returned from a list of three processes in which a process with
\* a higher pid stands before one with a lower pid and the same arrival, and
\* a process that arrives earlier stands after both
C18_Witness ==
    /\ policy = "fcfs" /\ Returned /\ Len(processes) = 3
    /\ processes[1].arrival = processes[2].arrival
    /\ processes[1].pid > processes[2].pid
    /\ processes[3].arrival < processes[1].arrival

----------------------------------------------------------------------------
(* srtf.                                                                   *)

\* the part of slice sl that lies before clock t
RunBefore(sl, t) == Max(0, Min(sl.finish, t) - sl.start)

\* the remaining time of pid at clock t, read off the timeline
RemainingAt(pid, t) ==
    LET sl == SelectSeq(timeline, LAMBDA x : x.pid = pid)
    IN  BurstOf(pid) - SumSeq([i \in 1..Len(sl) |-> RunBefore(sl[i], t)])

\* slice i ends with its process unfinished and slice i + 1 of another
\* process starts at that clock: a preemption
PreemptedAt(i) ==
    /\ i < Len(timeline)
    /\ timeline[i + 1].pid # timeline[i].pid
    /\ timeline[i + 1].start = timeline[i].finish
    /\ RemainingAt(timeline[i].pid, timeline[i].finish) > 0

\* C19: in the timeline srtf returns, a process is preempted only by a
\* process whose remaining time at that clock is strictly less than its own,
\* never by one with equal remaining time.
C19_NoPreemptionOnTie ==
    (policy = "srtf" /\ Returned) =>
        \A i \in 1..Len(timeline) :
            PreemptedAt(i) =>
                RemainingAt(timeline[i + 1].pid, timeline[i].finish)
                    < RemainingAt(timeline[i].pid, timeline[i].finish)

\* the pids that have arrived by the clock and are not finished
Runnable == {r \in DOMAIN remaining : ArrivalOf(r) <= time /\ remaining[r] > 0}

\* C20: in srtf, the process that runs in a time unit has the minimum
\* remaining time among the processes that have arrived and are unfinished,
\* in every step and in every slice of the returned timeline; a time unit is
\* idle only when there is no such process.
C20_RunsMinimumRemaining ==
    /\ [][(policy = "srtf" /\ pc = "loop") =>
            /\ \A pid \in DOMAIN remaining :
                remaining'[pid] # remaining[pid] =>
                    /\ pid \in Runnable
                    /\ remaining'[pid] = remaining[pid] - 1
                    /\ \A r \in Runnable : remaining[pid] <= remaining[r]
            /\ Runnable # {} => remaining' # remaining]_vars
    /\ [](policy = "srtf" /\ Returned =>
            \A i \in 1..Len(timeline) :
            \A t \in timeline[i].start..(timeline[i].finish - 1) :
            \A r \in InputPids :
                (ArrivalOf(r) <= t /\ RemainingAt(r, t) > 0) =>
                    RemainingAt(timeline[i].pid, t) <= RemainingAt(r, t))

\* srtf has returned a timeline in which a process was preempted at the
\* arrival of a process with strictly less remaining time
C20_Witness ==
    /\ policy = "srtf" /\ Returned
    /\ \E i \in 1..Len(timeline) :
        /\ PreemptedAt(i)
        /\ timeline[i + 1].start = ArrivalOf(timeline[i + 1].pid)
        /\ BurstOf(timeline[i + 1].pid)
            < RemainingAt(timeline[i].pid, timeline[i].finish)

\* the part of the open slice that belongs to pid: the units it has run
\* since it became current
OpenUnits(pid) == IF current_pid = pid THEN time - last_time ELSE 0

\* the pid whose remaining time this step reduces, None when the step is idle
RanPid ==
    IF \E pid \in DOMAIN remaining : remaining'[pid] # remaining[pid]
    THEN CHOOSE pid \in DOMAIN remaining : remaining'[pid] # remaining[pid]
    ELSE None

\* the slices this step appends to the timeline
Emitted == SubSeq(timeline', Len(timeline) + 1, Len(timeline'))

\* C21: in srtf a step emits a slice only where the running pid changes or a
\* process completes, and it emits one in both cases; the slice emitted on a
\* preemption is (current_pid, last_time, clock), the units the preempted
\* pid ran since it became current; the units a pid has run are those of its
\* slices plus the open one; and no two slices that touch have the same pid.
C21_BoundaryOnlyOnSwitch ==
    /\ [][(policy = "srtf" /\ pc = "loop" /\ RanPid # None) =>
            LET switch == current_pid # None /\ current_pid # RanPid
                done == remaining'[RanPid] = 0
                closing == Slice(RanPid, IF current_pid = RanPid THEN last_time
                                                              ELSE time, time + 1)
            IN  /\ timeline = SubSeq(timeline', 1, Len(timeline))
                /\ Emitted =
                     (IF switch THEN <<Slice(current_pid, last_time, time)>> ELSE <<>>)
                        \o (IF done THEN <<closing>> ELSE <<>>)
                /\ switch => time - last_time > 0]_vars
    /\ [](policy = "srtf" /\ pc # "call" =>
            /\ \A pid \in InputPids :
                CpuTime(pid) = ActiveTime(pid) + OpenUnits(pid)
            /\ \A i \in 1..(Len(timeline) - 1) :
                timeline[i].finish = timeline[i + 1].start =>
                    timeline[i].pid # timeline[i + 1].pid)

\* srtf has returned a timeline with a preemption and with a slice in which
\* a process ran several time units in a row
C21_Witness ==
    /\ policy = "srtf" /\ Returned
    /\ \E i \in 1..Len(timeline) : PreemptedAt(i)
    /\ \E i \in 1..Len(timeline) : timeline[i].finish - timeline[i].start >= 2
    /\ \E i \in 1..(Len(timeline) - 1) :
        /\ timeline[i].finish = timeline[i + 1].start
        /\ ~PreemptedAt(i)


----------------------------------------------------------------------------
(* The selection of sjf and priority_scheduling.                           *)

\* the key the claim orders the ready set of a policy by
SelectionKey(pid) ==
    IF policy = "sjf" THEN <<BurstOf(pid), ArrivalOf(pid), pid>>
    ELSE <<PriorityOf(pid), ArrivalOf(pid), pid>>

\* the pids that have arrived by the clock and have not been dispatched
ArrivedUnstarted == {r \in InputPids : ArrivalOf(r) <= time /\ SlicesOf(r) = {}}

\* C22: every dispatch of sjf takes the arrived and unstarted process with
\* minimum (burst, arrival, pid), and every dispatch of priority_scheduling
\* the one with minimum (priority, arrival, pid), whatever the order of the
\* input list.
C22_SelectsMinimumKey ==
    [][(/\ policy \in {"sjf", "priority_scheduling"} /\ pc = "loop"
        /\ Len(timeline') = Len(timeline) + 1) =>
            LET p == timeline'[Len(timeline')].pid
            IN  /\ p \in ArrivedUnstarted
                /\ \A r \in ArrivedUnstarted \ {p} :
                    LexLess(SelectionKey(p), SelectionKey(r))]_vars


----------------------------------------------------------------------------
(* Idle-time handling.                                                     *)

\* the policies that jump the clock over idle time
Jumping ==
    {"sjf", "round_robin", "priority_scheduling",
     "priority_scheduling_with_aging", "cfs", "mlfq"}

\* C23: the timeline returned by a policy that jumps the clock when idle is
\* the timeline of the reference simulation of that policy, which starts at
\* clock 0 and advances the clock one unit at a time while nothing is ready.
C23_JumpEqualsUnitStepping ==
    (policy \in Jumping /\ Returned) =>
        timeline = UnitStepReference(policy, processes, params)

\* a policy has returned from a list of two processes after jumping the
\* clock over two idle units at once
C23_Witness ==
    /\ policy \in Jumping /\ Returned
    /\ Len(timeline) >= 2
    /\ timeline[1].start >= 2


----------------------------------------------------------------------------
(* The CPU shares of cfs.                                                  *)

\* the vruntime of pid, in 1/VrScale units: that of its heap entry, 0.0
\* before it is admitted
VruntimeOf(h, pid) ==
    IF \E k \in 1..Len(h) : h[k].key[2] = pid
    THEN h[CHOOSE k \in 1..Len(h) : h[k].key[2] = pid].key[1]
    ELSE 0

\* a and b arrive together, a with the larger priority value
LargerPriority(a, b) ==
    /\ a # b
    /\ ArrivalOf(a) = ArrivalOf(b)
    /\ PriorityOf(a) > PriorityOf(b)

----------------------------------------------------------------------------
(* Work conservation.                                                      *)

\* time unit t lies inside a slice of the timeline
Covered(t) ==
    \E i \in 1..Len(timeline) : timeline[i].start <= t /\ t < timeline[i].finish

\* the clock at which the last slice of the timeline ends, 0 when it is empty
Makespan == SetMax({0} \cup {timeline[i].finish : i \in 1..Len(timeline)})

\* C25: in the timeline every policy returns, every time unit at which some
\* process has arrived and is not finished is covered by a slice: a time
\* unit is idle only when no arrived process has remaining work.
C25_WorkConserving ==
    Returned =>
        \A t \in 0..Makespan :
            (\E r \in InputPids : ArrivalOf(r) <= t /\ RemainingAt(r, t) > 0) =>
                Covered(t)

\* a policy has returned a timeline with an idle gap between two slices and
\* with a process that had to wait for the CPU after its arrival
C25_Witness ==
    /\ Returned /\ Len(timeline) = 3
    /\ \E i \in 2..Len(timeline) : timeline[i].start > timeline[i - 1].finish
    /\ \E j \in 1..Len(timeline) : timeline[j].start > ArrivalOf(timeline[j].pid)
    /\ ~Covered(timeline[1].finish)


----------------------------------------------------------------------------
(* The waiting clock of priority_scheduling_with_aging.                    *)

\* the key the claim says the dispatch of the aging policy selects by
ClampedKey(pid) == <<Max(1, PriorityOf(pid)), ArrivalOf(pid), pid>>

====
